---- MODULE Spec2Model ----
(***************************************************************************)
(* Model of src/app.py: the Streamlit page that loads one CSV file of      *)
(* free-trade-zone statistics through load_and_fix_data (memoized by       *)
(* st.cache_data) and re-runs top to bottom on every interaction.          *)
(*                                                                         *)
(* A column name is a sequence of Unicode code points.  A cell is a record *)
(* [k, v]: k = "num" is the finite number v / Denom, k = "inf" an infinite *)
(* float, k = "text" a non-numeric string, k = "missing" an empty field.   *)
(* A table is [columns, rows]: the header (a sequence of names) and the    *)
(* rows (each a sequence of cells, one per column).                        *)
(***************************************************************************)
EXTENDS Integers, Sequences, FiniteSets, TLC

(***************************************************************************)
(* Bounds of the model.                                                    *)
(***************************************************************************)
\* rows of an input file: 0 .. MaxRows
MaxRows == 2
\* an input file has up to MaxExtra columns more than the 36 of the schema
MaxExtra == 1
\* numeric cells are multiples of 1 / Denom
Denom == 2

(***************************************************************************)
(* Literals of the source.                                                 *)
(***************************************************************************)
Space == 32
Underscore == 95
\* the glyph tested on line 80
Marker == 21344
YearLo == 1970
YearHi == 2030

\* '연도'
YearName == <<50672, 46020>>
\* ['마산', '대불', '율촌', '김제', '울산', '군산', '동해']
regions_order ==
    << <<47560, 49328>>, <<45824, 48520>>, <<50984, 52492>>, <<44608, 51228>>,
       <<50872, 49328>>, <<44400, 49328>>, <<46041, 54644>> >>
\* ['수출', '수입', '수지', '고용', '업체']
metrics_order ==
    << <<49688, 52636>>, <<49688, 51077>>, <<49688, 51648>>,
       <<44256, 50857>>, <<50629, 52404>> >>

\* Python's None for year_col_name and df
None == <<-1>>
NoTable == [columns |-> <<>>, rows |-> <<>>]

(***************************************************************************)
(* String helpers: str.replace(' ', ''), str.strip(), "".join, `in`.       *)
(***************************************************************************)
IsWhitespace(c) == c \in {9, 10, 11, 12, 13, 28, 29, 30, 31, 32, 133, 160}

NotSpace(c) == c # Space

\* str.replace(' ', ''): every U+0020 is removed, other whitespace stays
RemoveSpaces(s) == SelectSeq(s, NotSpace)

RECURSIVE LStrip(_)
LStrip(s) == IF s # <<>> /\ IsWhitespace(Head(s)) THEN LStrip(Tail(s)) ELSE s

RECURSIVE RStrip(_)
RStrip(s) ==
    IF s # <<>> /\ IsWhitespace(s[Len(s)]) THEN RStrip(SubSeq(s, 1, Len(s) - 1)) ELSE s

\* str.strip(): leading and trailing whitespace removed
Strip(s) == LStrip(RStrip(s))

RECURSIVE Join(_)
\* "".join(names)
Join(names) == IF names = <<>> THEN <<>> ELSE Head(names) \o Join(Tail(names))

\* Python's `sub in s` on strings: sub occurs in s; the empty string occurs in every string
Contains(s, sub) ==
    \E i \in 0..(Len(s) - Len(sub)) : SubSeq(s, i + 1, i + Len(sub)) = sub

Min(a, b) == IF a <= b THEN a ELSE b

(***************************************************************************)
(* Numeric helpers: pd.to_numeric(errors='coerce'), between, astype(int).  *)
(***************************************************************************)
NaN == [k |-> "nan", v |-> 0]

\* pd.to_numeric(errors='coerce') of one cell: text and empty fields become NaN
ToNumeric(c) == IF c.k \in {"num", "inf"} THEN c ELSE NaN

\* Series.between(1970, 2030), inclusive on both sides; NaN and inf are outside
Between(c) == c.k = "num" /\ YearLo * Denom <= c.v /\ c.v <= YearHi * Denom

\* fillna(0)
FillNa(c) == IF c.k = "nan" THEN [k |-> "num", v |-> 0] ELSE c

\* astype(int) of a finite float: the fraction is cut, towards zero
IntCast(v) == IF v >= 0 THEN v \div Denom ELSE -((-v) \div Denom)

(***************************************************************************)
(* The steps of load_and_fix_data after the read.                          *)
(***************************************************************************)
NCols(t) == Len(t.columns)

\* the positions df[name] selects: one position is a Series, several a DataFrame
Positions(t, name) == {i \in 1..NCols(t) : t.columns[i] = name}

\* line 56
CleanColumns(t) ==
    [t EXCEPT !.columns = [i \in 1..NCols(t) |-> Strip(RemoveSpaces(t.columns[i]))]]

\* lines 63-64 for df[col] at position i: pd.to_numeric raises TypeError on a
\* DataFrame (a name that several columns carry), which the bare except skips
LooksLikeYear(t, i) ==
    /\ Cardinality(Positions(t, t.columns[i])) = 1
    /\ \E r \in 1..Len(t.rows) : Between(ToNumeric(t.rows[r][i]))

RECURSIVE ScanFrom(_, _)
ScanFrom(t, i) ==
    IF i > NCols(t) THEN None
    ELSE IF LooksLikeYear(t, i) THEN t.columns[i]
    ELSE ScanFrom(t, i + 1)

\* lines 59-68: the name of the first column whose values look like years
FindYear(t) == ScanFrom(t, 1)

\* df.rename(columns={old: new}): every column named old is renamed
Rename(t, old, new) ==
    [t EXCEPT !.columns = [i \in 1..NCols(t) |-> IF t.columns[i] = old THEN new ELSE t.columns[i]]]

\* `if year_col_name:` is false for None and for the empty string
Truthy(name) == name # None /\ name # <<>>

\* lines 71-75
RenameYear(t, y) ==
    IF Truthy(y) THEN Rename(t, y, YearName) ELSE Rename(t, t.columns[1], YearName)

\* line 80
is_broken(t) ==
    LET current_headers == Join(t.columns)
    IN  Contains(current_headers, <<Marker>>) \/ Contains(current_headers, <<>>)

new_columns_metric_major ==
    <<YearName>> \o
    [k \in 1..(Len(regions_order) * Len(metrics_order)) |->
        regions_order[((k - 1) % Len(regions_order)) + 1] \o <<Underscore>>
            \o metrics_order[((k - 1) \div Len(regions_order)) + 1]]

\* lines 88-91
new_columns ==
    <<YearName>> \o
    [k \in 1..(Len(regions_order) * Len(metrics_order)) |->
        regions_order[((k - 1) \div Len(metrics_order)) + 1] \o <<Underscore>>
            \o metrics_order[((k - 1) % Len(metrics_order)) + 1]]

\* lines 82-100: the table with its header rebuilt, and whether st.toast was called
FixHeaders(t) ==
    IF is_broken(t)
    THEN IF NCols(t) = Len(new_columns)
         THEN [df |-> [t EXCEPT !.columns = new_columns], toast |-> TRUE]
         ELSE LET limit == Min(NCols(t), Len(new_columns))
              IN  [df |-> [t EXCEPT !.columns =
                              SubSeq(new_columns, 1, limit) \o SubSeq(t.columns, limit + 1, NCols(t))],
                   toast |-> FALSE]
    ELSE [df |-> t, toast |-> FALSE]

KeepsRowLoose(t, p, r) == IntCast(FillNa(ToNumeric(t.rows[r][p])).v) >= 0

\* line 104: the row's year is > 0
KeepsRow(t, p, r) == IntCast(FillNa(ToNumeric(t.rows[r][p])).v) > 0

RECURSIVE FilterRows(_, _, _)
FilterRows(t, p, r) ==
    IF r > Len(t.rows) THEN <<>>
    ELSE LET row == t.rows[r]
             year == [k |-> "num", v |-> IntCast(FillNa(ToNumeric(row[p])).v) * Denom]
         IN  (IF KeepsRow(t, p, r) THEN << [row EXCEPT ![p] = year] >> ELSE <<>>)
                 \o FilterRows(t, p, r + 1)

\* lines 103-104: err is "" when the step returns.  df['연도'] is a DataFrame when
\* several columns carry the name (pd.to_numeric raises TypeError), a KeyError when
\* none does; astype(int) raises on an infinite value
CoerceYear(t) ==
    LET ps == Positions(t, YearName)
    IN  IF ps = {} THEN [err |-> "KeyError", df |-> NoTable]
        ELSE IF Cardinality(ps) > 1 THEN [err |-> "TypeError", df |-> NoTable]
        ELSE LET p == CHOOSE i \in ps : TRUE
             IN  IF \E r \in 1..Len(t.rows) : ToNumeric(t.rows[r][p]).k = "inf"
                 THEN [err |-> "IntCastingNaNError", df |-> NoTable]
                 ELSE [err |-> "", df |-> [t EXCEPT !.rows = FilterRows(t, p, 1)]]

\* the first read attempt of lines 35, 39, 46, 48 that does not raise (0: all raise)
FirstOk(ok) ==
    IF ok[1] THEN 1 ELSE IF ok[2] THEN 2 ELSE IF ok[3] THEN 3 ELSE IF ok[4] THEN 4 ELSE 0

\* lines 50-51: df = None after the reads raises ValueError
AfterReads(d) ==
    IF d = NoTable THEN [pc |-> "done", outcome |-> "ValueError"]
    ELSE [pc |-> "clean", outcome |-> ""]

\* line 44: the lossy reads are tried only when both strict reads left df = None
AfterStrict(d) == IF d = NoTable THEN "utf8_ignore" ELSE AfterReads(d).pc

\* lines 30-106 as one call on file f: what the call returns or raises, and whether
\* st.toast was called
load_and_fix_data(f) ==
    IF FirstOk(f.ok) = 0
    THEN [outcome |-> "ReadError", df |-> NoTable, toast |-> FALSE]
    ELSE IF AfterReads(f.table).outcome # ""
    THEN [outcome |-> AfterReads(f.table).outcome, df |-> NoTable, toast |-> FALSE]
    ELSE LET cleaned == CleanColumns(f.table)
             renamed == RenameYear(cleaned, FindYear(cleaned))
             fixed == FixHeaders(renamed)
             coerced == CoerceYear(fixed.df)
         IN  IF coerced.err = ""
             THEN [outcome |-> "table", df |-> coerced.df, toast |-> fixed.toast]
             ELSE [outcome |-> coerced.err, df |-> NoTable, toast |-> fixed.toast]

(***************************************************************************)
(* The table written back to a CSV file and read again (df.to_csv without  *)
(* the index, then pd.read_csv): read_csv names an empty header field      *)
(* "Unnamed: <position>" and numbers a repeated header name.               *)
(***************************************************************************)
RECURSIVE Digits(_)
Digits(n) == IF n < 10 THEN <<48 + n>> ELSE Digits(n \div 10) \o <<48 + (n % 10)>>

\* "Unnamed: "
UnnamedPrefix == <<85, 110, 110, 97, 109, 101, 100, 58, 32>>

ReadHeaderName(names, i) ==
    LET before == Cardinality({j \in 1..(i - 1) : names[j] = names[i]})
    IN  IF names[i] = <<>> THEN UnnamedPrefix \o Digits(i - 1)
        ELSE IF before > 0 THEN names[i] \o <<46>> \o Digits(before)
        ELSE names[i]

Serialize(t) ==
    [exists |-> TRUE,
     ok |-> <<TRUE, TRUE, TRUE, TRUE>>,
     table |-> [t EXCEPT !.columns = [i \in 1..NCols(t) |-> ReadHeaderName(t.columns, i)]]]

(***************************************************************************)
(* Input files.  A file is what pd.read_csv makes of it: which of the four *)
(* read attempts raise (ok), and the table a successful attempt returns.   *)
(* read_csv returns at least one column and names that are non-empty and   *)
(* pairwise distinct.                                                      *)
(***************************************************************************)
SchemaLen == Len(new_columns)

ColumnCounts == {1, 3} \cup (SchemaLen..(SchemaLen + MaxExtra))

\* "x" and one more character, different for every position
BaseName(i) == <<120, 48 + i>>

\* header names of interest: the year name, a name with the marker glyph, a blank
\* name, and a name (a tab, "x 1") that is BaseName(1) once cleaned
MarkerName == <<Marker, 50137>>
BlankName == <<Space>>
SpacedName == <<9, 120, Space, 49>>

Overrides(n) ==
    {[pos |-> 0, name |-> <<>>]}
    \cup {[pos |-> p, name |-> nm] : p \in {1, n}, nm \in {YearName, MarkerName, BlankName, SpacedName}}
    \cup {[pos |-> p, name |-> SpacedName] : p \in {2} \cap (1..n)}

Header(n, o) == [i \in 1..n |-> IF i = o.pos THEN o.name ELSE BaseName(i)]

WellFormedHeader(h) ==
    /\ Len(h) >= 1
    /\ \A i \in 1..Len(h) : h[i] # <<>>
    /\ \A i, j \in 1..Len(h) : i # j => h[i] # h[j]

Num(v) == [k |-> "num", v |-> v]
Text == [k |-> "text", v |-> 0]
Missing == [k |-> "missing", v |-> 0]
Inf == [k |-> "inf", v |-> 0]
\* the cell of every column but the first and the last: a number that is no year
Filler == Num(7 * Denom)

\* a row is its first and its last cell
RowTypes ==
    << <<Num(YearLo * Denom), Text>>,
       <<Num((YearLo - 1) * Denom), Text>>,
       <<Num(0), Text>>,
       <<Num(-5 * Denom), Text>>,
       <<Num(1), Text>>,
       <<Text, Text>>,
       <<Missing, Text>>,
       <<Inf, Text>>,
       <<Text, Num(YearHi * Denom)>> >>

Row(n, ty) == [i \in 1..n |-> IF i = 1 THEN ty[1] ELSE IF i = n THEN ty[2] ELSE Filler]

RECURSIVE RowsOf(_, _)
\* the rows of the types in S, in the order of RowTypes
RowsOf(n, S) ==
    IF S = {} THEN <<>>
    ELSE LET m == CHOOSE x \in S : \A y \in S : x <= y
         IN  <<Row(n, RowTypes[m])>> \o RowsOf(n, S \ {m})

RowChoices == {S \in SUBSET (1..Len(RowTypes)) : Cardinality(S) <= MaxRows}

InputTables ==
    UNION {UNION {{[columns |-> Header(n, o), rows |-> RowsOf(n, S)] : S \in RowChoices}
                  : o \in {x \in Overrides(n) : WellFormedHeader(Header(n, x))}}
           : n \in ColumnCounts}

\* a strict read that succeeds also succeeds with encoding_errors='ignore'
OkVectors ==
    {o \in [1..4 -> BOOLEAN] : (o[1] => o[3]) /\ (o[2] => o[4])}

Files == {[exists |-> TRUE, ok |-> o, table |-> t] : o \in OkVectors, t \in InputTables}

(***************************************************************************)
(* State.                                                                  *)
(***************************************************************************)
VARIABLES
    file,           \* the CSV file at file_path (lines 113-115)
    cache,          \* st.cache_data's entry for load_and_fix_data(file_path)
    pc,             \* where the script run is: "idle", a line of load_and_fix_data, "done"
    df,             \* df of load_and_fix_data, then of the script (line 121)
    raw,            \* the table pd.read_csv returned in this run
    year_col_name,  \* line 59
    toast,          \* st.toast was called in this run (line 96)
    tried,          \* the read attempts made in this run, in order
    outcome,        \* how the run ended: "table", "missing" or the exception raised
    cache_hit,      \* this run's call was answered from the cache
    changed         \* the file was changed since the last run started

vars == <<file, cache, pc, df, raw, year_col_name, toast, tried, outcome, cache_hit, changed>>

NoEntry == [present |-> FALSE, df |-> NoTable]

Init ==
    /\ file \in Files
    /\ cache = NoEntry
    /\ pc = "idle"
    /\ df = NoTable
    /\ raw = NoTable
    /\ year_col_name = None
    /\ toast = FALSE
    /\ tried = <<>>
    /\ outcome = ""
    /\ cache_hit = FALSE
    /\ changed = FALSE

\* a script run starts from the top: every name of the previous run is gone
StartRun ==
    /\ pc \in {"idle", "done"}
    /\ raw' = NoTable
    /\ year_col_name' = None
    /\ toast' = FALSE
    /\ tried' = <<>>
    /\ changed' = FALSE

\* lines 118-119: the file is not there
RunMissing ==
    /\ StartRun
    /\ ~file.exists
    /\ pc' = "done"
    /\ outcome' = "missing"
    /\ df' = NoTable
    /\ cache_hit' = FALSE
    /\ UNCHANGED <<file, cache>>

\* lines 29, 121: st.cache_data answers the call for a file_path it has an entry for
RunCacheHit ==
    /\ StartRun
    /\ file.exists
    /\ cache.present
    /\ pc' = "done"
    /\ outcome' = "table"
    /\ df' = cache.df
    /\ cache_hit' = TRUE
    /\ UNCHANGED <<file, cache>>

\* lines 29, 121: no entry, the body of load_and_fix_data runs
RunCacheMiss ==
    /\ StartRun
    /\ file.exists
    /\ ~cache.present
    /\ pc' = "utf8"
    /\ outcome' = ""
    /\ df' = NoTable
    /\ cache_hit' = FALSE
    /\ UNCHANGED <<file, cache>>

\* read attempt a at pc = at: the table on success, else on to pc = onFail
ReadAttempt(a, at, onOk, onFail) ==
    /\ pc = at
    /\ tried' = Append(tried, a)
    /\ IF file.ok[a]
       THEN /\ df' = file.table
            /\ raw' = file.table
            /\ pc' = onOk
       ELSE /\ pc' = onFail
            /\ UNCHANGED <<df, raw>>
    /\ UNCHANGED <<file, cache, year_col_name, toast, outcome, cache_hit, changed>>

\* lines 34-36
ReadUtf8 == ReadAttempt(1, "utf8", AfterStrict(file.table), "cp949")

\* lines 38-41
ReadCp949 == ReadAttempt(2, "cp949", AfterStrict(file.table), AfterStrict(NoTable))

\* lines 44-47
ReadUtf8Ignore == ReadAttempt(3, "utf8_ignore", AfterReads(file.table).pc, "cp949_ignore")

\* line 48: the last attempt is in no try block, what it raises leaves the function
\* and is caught on line 185
ReadCp949Ignore ==
    /\ pc = "cp949_ignore"
    /\ tried' = Append(tried, 4)
    /\ IF file.ok[4]
       THEN /\ df' = file.table
            /\ raw' = file.table
            /\ pc' = AfterReads(file.table).pc
            /\ outcome' = AfterReads(file.table).outcome
       ELSE /\ pc' = "done"
            /\ outcome' = "ReadError"
            /\ UNCHANGED <<df, raw>>
    /\ UNCHANGED <<file, cache, year_col_name, toast, cache_hit, changed>>

\* line 56
CleanStep ==
    /\ pc = "clean"
    /\ df' = CleanColumns(df)
    /\ pc' = "find_year"
    /\ UNCHANGED <<file, cache, raw, year_col_name, toast, tried, outcome, cache_hit, changed>>

\* lines 59-68
FindYearStep ==
    /\ pc = "find_year"
    /\ year_col_name' = FindYear(df)
    /\ pc' = "rename"
    /\ UNCHANGED <<file, cache, df, raw, toast, tried, outcome, cache_hit, changed>>

\* lines 71-75
RenameStep ==
    /\ pc = "rename"
    /\ df' = RenameYear(df, year_col_name)
    /\ pc' = "fix"
    /\ UNCHANGED <<file, cache, raw, year_col_name, toast, tried, outcome, cache_hit, changed>>

\* lines 79-100
FixStep ==
    /\ pc = "fix"
    /\ df' = FixHeaders(df).df
    /\ toast' = FixHeaders(df).toast
    /\ pc' = "coerce"
    /\ UNCHANGED <<file, cache, raw, year_col_name, tried, outcome, cache_hit, changed>>

\* lines 103-106, and st.cache_data storing what the call returned; an exception is
\* not stored and is caught on line 185
CoerceStep ==
    /\ pc = "coerce"
    /\ LET c == CoerceYear(df)
       IN  /\ df' = c.df
           /\ outcome' = IF c.err = "" THEN "table" ELSE c.err
           /\ cache' = IF c.err = "" THEN [present |-> TRUE, df |-> c.df] ELSE cache
    /\ pc' = "done"
    /\ UNCHANGED <<file, raw, year_col_name, toast, tried, cache_hit, changed>>

\* the file is rewritten between two runs: here it loses its last row
TruncateFile ==
    /\ pc \in {"idle", "done"}
    /\ file.exists
    /\ file.table.rows # <<>>
    /\ file' = [file EXCEPT !.table.rows = SubSeq(@, 1, Len(@) - 1)]
    /\ changed' = TRUE
    /\ UNCHANGED <<cache, pc, df, raw, year_col_name, toast, tried, outcome, cache_hit>>

\* the file is removed between two runs
DeleteFile ==
    /\ pc \in {"idle", "done"}
    /\ file.exists
    /\ file' = [file EXCEPT !.exists = FALSE]
    /\ changed' = TRUE
    /\ UNCHANGED <<cache, pc, df, raw, year_col_name, toast, tried, outcome, cache_hit>>

Next ==
    \/ RunMissing
    \/ RunCacheHit
    \/ RunCacheMiss
    \/ ReadUtf8
    \/ ReadCp949
    \/ ReadUtf8Ignore
    \/ ReadCp949Ignore
    \/ CleanStep
    \/ FindYearStep
    \/ RenameStep
    \/ FixStep
    \/ CoerceStep
    \/ TruncateFile
    \/ DeleteFile

Spec == Init /\ [][Next]_vars

\* a run of the body ends as the call of load_and_fix_data on the file does
StepsAgreeWithCall ==
    (pc = "done" /\ ~cache_hit /\ outcome # "missing" /\ ~changed) =>
        LET r == load_and_fix_data(file)
        IN  outcome = r.outcome /\ df = r.df /\ toast = r.toast

(***************************************************************************)
(* Properties.                                                             *)
(***************************************************************************)
\* the body of load_and_fix_data ran in this run and its read succeeded
Ran == pc = "done" /\ ~cache_hit /\ raw # NoTable

\* ... and the call returned a table
Returned == Ran /\ outcome = "table"

\* the header has been cleaned, the year column renamed and the header rebuilt
Normalized == pc = "coerce"

HasMarker(h) == \E i \in 1..Len(h) : \E j \in 1..Len(h[i]) : h[i][j] = 21344

NotWhitespace(c) == ~IsWhitespace(c)

\* a header name with its whitespace stripped
Stripped(name) == SelectSeq(name, NotWhitespace)

\* the schema written out: the year, then for each zone its five metrics
ZoneBlock(z) ==
    << z \o <<95, 49688, 52636>>, z \o <<95, 49688, 51077>>, z \o <<95, 49688, 51648>>,
       z \o <<95, 44256, 50857>>, z \o <<95, 50629, 52404>> >>

ExpectedColumns ==
    << <<50672, 46020>> >> \o ZoneBlock(<<47560, 49328>>) \o ZoneBlock(<<45824, 48520>>)
        \o ZoneBlock(<<50984, 52492>>) \o ZoneBlock(<<44608, 51228>>)
        \o ZoneBlock(<<50872, 49328>>) \o ZoneBlock(<<44400, 49328>>)
        \o ZoneBlock(<<46041, 54644>>)

\* the header as it stood when line 80 judged it
JudgedHeader == RenameYear(CleanColumns(raw), year_col_name)

\* C1: a file that decodes as utf-8 and whose column names hold no mojibake marker
\* is not repaired: no repair is signalled, and every column but the year column
\* keeps its original name with the whitespace stripped.
C1_CleanHeaderIsNotRebuilt ==
    (Normalized /\ tried = <<1>> /\ ~HasMarker(raw.columns)) =>
        /\ ~toast
        /\ \A i \in 1..NCols(df) :
              df.columns[i] = YearName \/ df.columns[i] = Stripped(raw.columns[i])

\* C2: a header with a mojibake marker and exactly 36 columns is repaired: the
\* repair is signalled and the column names are the year name followed by
\* {zone}_{metric}, zones in the outer loop and metrics in the inner loop.
C2_BrokenHeaderOf36IsRebuilt ==
    ((Normalized \/ Returned) /\ HasMarker(raw.columns) /\ NCols(raw) = 36) =>
        /\ toast
        /\ df.columns = ExpectedColumns

C2_Witness ==
    /\ Returned
    /\ HasMarker(raw.columns)
    /\ NCols(raw) = 36
    /\ toast
    /\ df.rows # <<>>

\* C3: a header judged broken with a column count n other than 36 does not abort
\* the load: the first min(n, 36) columns carry the schema names, every later
\* column keeps the name it had, and the number of columns is unchanged.  (An
\* infinite year value aborts any load and is left aside.)
C3_PartialRebuildDoesNotAbort ==
    (Ran /\ is_broken(JudgedHeader) /\ NCols(raw) # 36 /\ outcome # "IntCastingNaNError") =>
        /\ outcome = "table"
        /\ NCols(df) = NCols(raw)
        /\ \A i \in 1..NCols(df) :
              df.columns[i] = IF i <= 36 THEN ExpectedColumns[i] ELSE JudgedHeader.columns[i]

\* a cell whose numeric value lies in [1970, 2030]
InYearRange(c) == c.k = "num" /\ 1970 * Denom <= c.v /\ c.v <= 2030 * Denom

\* the leftmost column of the table read with a value in the range (0: none)
LeftmostYearColumn ==
    LET hits == {i \in 1..NCols(raw) : \E r \in 1..Len(raw.rows) : InYearRange(raw.rows[r][i])}
    IN  IF hits = {} THEN 0 ELSE CHOOSE i \in hits : \A j \in hits : i <= j

\* C4: year-column discovery ignores the header names: the one column renamed to
\* the year name is the leftmost column with a value in [1970, 2030], and the
\* column at position 0 when no column has such a value.
C4_YearColumnIsFoundByValue ==
    pc = "fix" =>
        LET target == IF LeftmostYearColumn # 0 THEN LeftmostYearColumn ELSE 1
        IN  \A i \in 1..NCols(df) :
               df.columns[i] = IF i = target THEN YearName ELSE CleanColumns(raw).columns[i]

\* the position of the year column of the table returned
YearColumn == CHOOSE i \in 1..NCols(df) : df.columns[i] = YearName

\* the year cell is a finite number >= least / Denom
AtLeast(c, least) == c.k = "num" /\ c.v >= least

RECURSIVE KeptFrom(_, _, _)
\* the rows r, r + 1, ... of the table read whose year is >= least / Denom, in order
KeptFrom(r, p, least) ==
    IF r > Len(raw.rows) THEN <<>>
    ELSE (IF AtLeast(raw.rows[r][p], least) THEN <<raw.rows[r]>> ELSE <<>>)
             \o KeptFrom(r + 1, p, least)

\* the rows returned are the rows `kept`, each with its year made an integer > 0
RowsAre(kept, p) ==
    /\ Len(df.rows) = Len(kept)
    /\ \A j \in 1..Len(df.rows) :
          /\ df.rows[j][p].k = "num"
          /\ df.rows[j][p].v % Denom = 0
          /\ df.rows[j][p].v > 0
          /\ \A i \in 1..NCols(df) : i # p => df.rows[j][i] = kept[j][i]

\* C5 as stated: the rows returned are exactly the input rows, in order, whose year
\* coerces to a number > 0 (the least such number here is 1 / Denom), each with an
\* integer year > 0.
C5_RowsWithPositiveYearAreKept ==
    Returned => RowsAre(KeptFrom(1, YearColumn, 1), YearColumn)

\* C5 amended: the year is cut to an integer before the test, so the rows returned
\* are exactly the input rows, in order, whose year coerces to a number >= 1; the
\* year returned is that number without its fraction.
C5_RowsWithYearAtLeastOneAreKept ==
    Returned =>
        /\ RowsAre(KeptFrom(1, YearColumn, Denom), YearColumn)
        /\ LET kept == KeptFrom(1, YearColumn, Denom)
           IN  \A j \in 1..Len(df.rows) :
                  /\ df.rows[j][YearColumn].v <= kept[j][YearColumn].v
                  /\ kept[j][YearColumn].v < df.rows[j][YearColumn].v + Denom

C5_Witness ==
    /\ Returned
    /\ df.rows # <<>>
    /\ Len(df.rows) < Len(raw.rows)
    /\ \E r \in 1..Len(raw.rows) : raw.rows[r][YearColumn] = [k |-> "num", v |-> 1]

\* C6: a run with the file unchanged since the last load reuses the memoized
\* table without reading the file, and a run after the file changed does not: the
\* table a run uses is the normalization of the file's current content.
C6_TableFollowsTheFile ==
    (pc = "done" /\ ~changed /\ file.exists) =>
        /\ cache_hit => tried = <<>>
        /\ outcome = load_and_fix_data(file).outcome
        /\ df = load_and_fix_data(file).df

\* the first attempt, in the order utf-8, cp949, utf-8 lossy, cp949 lossy, that
\* does not raise (0: every attempt raises)
FirstSuccess ==
    IF \E a \in 1..4 : file.ok[a] THEN CHOOSE a \in 1..4 : file.ok[a] /\ \A b \in 1..(a - 1) : ~file.ok[b]
    ELSE 0

\* C7: the reads are attempted in the fixed order, the table is that of the first
\* attempt that succeeds and no later attempt is made; the load fails with the
\* unreadable-file error exactly when every attempt raises.
C7_ReadOrderAndUnreadableError ==
    /\ (pc = "clean" =>
            /\ FirstSuccess # 0
            /\ tried = [a \in 1..FirstSuccess |-> a]
            /\ df = file.table)
    /\ ((pc = "done" /\ ~cache_hit /\ outcome # "missing") =>
            (outcome = "ValueError" <=> FirstSuccess = 0))

\* C8: once the header is normalized, exactly one column carries the year name.
C8_ExactlyOneYearColumn ==
    Normalized => Cardinality({i \in 1..NCols(df) : df.columns[i] = YearName}) = 1

\* C9: load_and_fix_data applied to the table it returned, written back to CSV,
\* returns the same column names and the same rows and signals no repair.
C9_SecondApplicationChangesNothing ==
    Returned =>
        LET second == load_and_fix_data(Serialize(df))
        IN  /\ second.outcome = "table"
            /\ second.df.columns = df.columns
            /\ second.df.rows = df.rows
            /\ ~second.toast

\* C10: when a column was discovered as the year column by its values and the
\* header is rebuilt, the column that carries the year name afterwards is the
\* discovered column, at whatever position it is.
C10_DiscoveredColumnKeepsTheYearName ==
    (Normalized /\ Truthy(year_col_name) /\ is_broken(JudgedHeader)) =>
        \A i \in 1..NCols(df) :
            (df.columns[i] = YearName) <=> (CleanColumns(raw).columns[i] = year_col_name)
====
